---- MODULE Spec2Model ----
(***************************************************************************)
(* A model of wordle.py: the Game session (next_guess, respond,            *)
(* pare_word_bank, play) and the helper letter_frequencies.                *)
(*                                                                         *)
(* A word is a sequence of one-letter strings, so that positions can be    *)
(* indexed; Python's 0-based position i is position i + 1 here.            *)
(*                                                                         *)
(* Three specifications:                                                   *)
(*   Spec         Game(solution, guess_limit=.., word_bank=..).play()      *)
(*   SpecRespond  one call of Game.respond on an arbitrary guess/solution  *)
(*   SpecPare     the calls of Game.pare_word_bank: one call on an         *)
(*                arbitrary bank and hint sequence, and those of play      *)
(***************************************************************************)
EXTENDS Integers, Sequences, FiniteSets

VARIABLES solution, responses, guess_limit, word_bank, solved,
          guess, response, pc, output, initial_bank

vars == <<solution, responses, guess_limit, word_bank, solved,
          guess, response, pc, output, initial_bank>>

----------------------------------------------------------------------------
(* Bounds of the model *)

\* longest initial word bank of a session
MaxBank == 3

\* largest guess_limit of a session (0, the limit that is never met, included)
MaxLimit == 3

\* rounds explored when guess_limit is never met
MaxRounds == MaxLimit + 1

\* longest guess or solution handed to respond in SpecRespond
MaxLen == 2

\* longest word bank, and longest hint sequence, handed to pare_word_bank in SpecPare
MaxPareBank == 2

MaxHints == 2

Letters == {"a", "b", "c", "d"}

\* the dictionary the initial word banks are drawn from: equal-length words
Dictionary ==
  { <<"a","b","c">>, <<"b","c","a">>, <<"a","a","b">>,
    <<"a","b","d">>, <<"c","d","d">>, <<"d","d","a">> }

\* solutions that are in no word bank: one of the words' length, one shorter,
\* one longer
OutsideSolutions ==
  { <<"d","d","d">>, <<"b","a">>, <<"a","b","c","d">> }

Solutions == Dictionary \cup OutsideSolutions

\* the two words of the documented example
Table == <<"t","a","b","l","e">>

Abbey == <<"a","b","b","e","y">>

----------------------------------------------------------------------------
(* Helpers *)

Range(s) == { s[i] : i \in DOMAIN s }

Min(a, b) == IF a < b THEN a ELSE b

\* sequences without repetition, of length 1..n, over the set S
InjectiveSeqs(S, n) ==
  UNION { { s \in [1..k -> S] : \A i, j \in 1..k : s[i] = s[j] => i = j } : k \in 1..n }

\* all sequences of length lo..hi over the set S
SeqsOfLen(S, lo, hi) == UNION { [1..k -> S] : k \in lo..hi }

Hints == {"YES", "MOVE", "NO"}

----------------------------------------------------------------------------
(* letter_frequencies *)

RECURSIVE letter_frequencies(_)
letter_frequencies(words) ==
  IF words = <<>> THEN [l \in {} |-> 0]
  ELSE LET frequency_map == letter_frequencies(SubSeq(words, 1, Len(words) - 1))
           word == words[Len(words)]
       IN [letter \in DOMAIN frequency_map \cup Range(word) |->
             IF letter \in Range(word)
             THEN IF letter \in DOMAIN frequency_map
                  THEN frequency_map[letter] + 1
                  ELSE 1
             ELSE frequency_map[letter]]

----------------------------------------------------------------------------
(* Game.next_guess *)

RECURSIVE SumFreqs(_, _)
SumFreqs(S, freqs) ==
  IF S = {} THEN 0
  ELSE LET l == CHOOSE x \in S : TRUE
       IN freqs[l] + SumFreqs(S \ {l}, freqs)

\* score(word): the reduce with + over freqs[letter] for letter in set(word)
score(word, freqs) == SumFreqs(Range(word), freqs)

keep_higher_ge(a, b) == IF a[2] >= b[2] THEN a ELSE b

\* lambda a, b: a if a[1] > b[1] else b
keep_higher(a, b) == IF a[2] > b[2] THEN a ELSE b

\* functools.reduce(keep_higher, score_map), a left fold, score_map not empty
RECURSIVE reduce_best(_)
reduce_best(score_map) ==
  IF Len(score_map) = 1 THEN score_map[1]
  ELSE keep_higher(reduce_best(SubSeq(score_map, 1, Len(score_map) - 1)),
                   score_map[Len(score_map)])

\* defined for a bank that is not empty; on an empty bank reduce raises TypeError
next_guess(bank) ==
  LET freqs == letter_frequencies(bank)
      score_map == [k \in 1..Len(bank) |-> <<bank[k], score(bank[k], freqs)>>]
  IN reduce_best(score_map)[1]

----------------------------------------------------------------------------
(* Game.respond *)

evaluate_move_first(g, s, sol) ==
  IF g \in Range(sol) THEN <<"MOVE", g>>
  ELSE IF g = s THEN <<"YES", g>>
  ELSE <<"NO", g>>

evaluate_swapped(g, s, sol) ==
  IF g = s THEN <<"YES", g>>
  ELSE IF g \in Range(sol) THEN <<"NO", g>>
  ELSE <<"MOVE", g>>

\* evaluate(g, s), with self.solution as sol: solution.find(g) > -1 is g in solution
evaluate(g, s, sol) ==
  IF g = s THEN <<"YES", g>>
  ELSE IF \E j \in 1..Len(sol) : sol[j] = g THEN <<"MOVE", g>>
  ELSE <<"NO", g>>

\* zip stops at the shorter of its two arguments
respond(g, sol) ==
  [i \in 1..Min(Len(g), Len(sol)) |-> evaluate(g[i], sol[i], sol)]

----------------------------------------------------------------------------
(* Game.pare_word_bank *)

keep_word_swapped(word, i, hint, letter) ==
  CASE hint = "YES"  -> word[i] = letter
    [] hint = "MOVE" -> letter \notin Range(word)
    [] hint = "NO"   -> letter \in Range(word)

keep_word_strict(word, i, hint, letter) ==
  CASE hint = "YES"  -> word[i] = letter
    [] hint = "MOVE" -> letter \in Range(word) /\ word[i] # letter
    [] hint = "NO"   -> letter \notin Range(word)

\* the condition of the list comprehension chosen by the hint
keep_word(word, i, hint, letter) ==
  CASE hint = "YES"  -> word[i] = letter
    [] hint = "MOVE" -> \E j \in 1..Len(word) : word[j] = letter
    [] hint = "NO"   -> \A j \in 1..Len(word) : word[j] # letter

apply_hint_extend(bank, i, hint, letter) ==
  bank \o SelectSeq(bank, LAMBDA word : keep_word(word, i, hint, letter))

\* self.word_bank = [word for word in self.word_bank if ...]
apply_hint(bank, i, hint, letter) ==
  SelectSeq(bank, LAMBDA word : keep_word(word, i, hint, letter))

\* the loop over range(len(response)), from position i on
RECURSIVE pare_from(_, _, _)
pare_from(bank, resp, i) ==
  IF i > Len(resp) THEN bank
  ELSE pare_from(apply_hint(bank, i, resp[i][1], resp[i][2]), resp, i + 1)

pare_word_bank(bank, resp) == pare_from(bank, resp, 1)

----------------------------------------------------------------------------
(* Game.play *)

any_exact(resp) == \E i \in 1..Len(resp) : resp[i][1] = "YES"

\* reduce(lambda a, b: a and b, [h == Hint.YES for (h, _) in response])
all_exact(resp) == \A i \in 1..Len(resp) : resp[i][1] = "YES"

limit_passed(n, limit) == n > limit

\* len(self.responses) == self.guess_limit
limit_reached(n, limit) == n = limit

\* Game(solution, guess_limit=.., word_bank=..): responses and solved default
Init ==
  /\ solution \in Solutions
  /\ word_bank \in InjectiveSeqs(Dictionary, MaxBank)
  /\ guess_limit \in 0..MaxLimit
  /\ initial_bank = word_bank
  /\ responses = <<>>
  /\ solved = FALSE
  /\ guess = <<>>
  /\ response = <<>>
  /\ output = "none"
  /\ pc = "loop"

\* while not self.solved: guess = self.next_guess(), on a bank with a word
NextGuess ==
  /\ pc = "loop"
  /\ ~solved
  /\ Len(responses) < MaxRounds
  /\ word_bank # <<>>
  /\ guess' = next_guess(word_bank)
  /\ pc' = "respond"
  /\ UNCHANGED <<solution, responses, guess_limit, word_bank, solved,
                 response, output, initial_bank>>

\* guess = self.next_guess() on an empty bank: reduce of an empty list raises
\* TypeError, which nothing catches
NextGuessFault ==
  /\ pc = "loop"
  /\ ~solved
  /\ Len(responses) < MaxRounds
  /\ word_bank = <<>>
  /\ pc' = "fault"
  /\ UNCHANGED <<solution, responses, guess_limit, word_bank, solved,
                 guess, response, output, initial_bank>>

\* response = self.respond(guess) ... the two break tests
Respond ==
  /\ pc = "respond"
  /\ response' = respond(guess, solution)
  /\ responses' = Append(responses, response')
  /\ solved' = all_exact(response')
  /\ IF solved'
     THEN output' = "Success" /\ pc' = "done"
     ELSE IF limit_reached(Len(responses'), guess_limit)
          THEN output' = "Failure" /\ pc' = "done"
          ELSE output' = output /\ pc' = "pare"
  /\ UNCHANGED <<solution, guess_limit, word_bank, guess, initial_bank>>

\* self.pare_word_bank(response), then back to the loop test
Pare ==
  /\ pc = "pare"
  /\ word_bank' = pare_word_bank(word_bank, response)
  /\ pc' = "loop"
  /\ UNCHANGED <<solution, responses, guess_limit, solved, guess, response,
                 output, initial_bank>>

Next == NextGuess \/ NextGuessFault \/ Respond \/ Pare

Spec == Init /\ [][Next]_vars

----------------------------------------------------------------------------
(* One call of Game.respond *)

RespondInputs == SeqsOfLen(Letters, 0, MaxLen) \cup {Table, Abbey}

InitRespond ==
  /\ guess \in RespondInputs
  /\ solution \in RespondInputs
  /\ response = <<>>
  /\ pc = "respond_call"
  /\ responses = <<>>
  /\ guess_limit = 0
  /\ word_bank = <<>>
  /\ initial_bank = <<>>
  /\ solved = FALSE
  /\ output = "none"

RespondCall ==
  /\ pc = "respond_call"
  /\ response' = respond(guess, solution)
  /\ pc' = "respond_ret"
  /\ UNCHANGED <<solution, responses, guess_limit, word_bank, solved,
                 guess, output, initial_bank>>

NextRespond == RespondCall

SpecRespond == InitRespond /\ [][NextRespond]_vars

----------------------------------------------------------------------------
(* One call of Game.pare_word_bank *)

PareResponses == SeqsOfLen(Hints \X Letters, 1, MaxHints)

InitPareCall ==
  /\ word_bank \in InjectiveSeqs(Dictionary, MaxPareBank)
  /\ response \in PareResponses
  /\ initial_bank = word_bank
  /\ pc = "pare_call"
  /\ solution = <<>>
  /\ guess = <<>>
  /\ responses = <<>>
  /\ guess_limit = 0
  /\ solved = FALSE
  /\ output = "none"

PareCall ==
  /\ pc = "pare_call"
  /\ word_bank' = pare_word_bank(word_bank, response)
  /\ pc' = "pare_ret"
  /\ UNCHANGED <<solution, responses, guess_limit, solved, guess, response,
                 output, initial_bank>>

\* the calls of pare_word_bank: the arbitrary ones and those play makes
InitPare == InitPareCall \/ Init

NextPare == PareCall \/ Next

SpecPare == InitPare /\ [][NextPare]_vars

----------------------------------------------------------------------------
(* Properties of next_guess *)

\* the number of words of the bank that contain the letter
Containing(bank, letter) ==
  Cardinality({ k \in 1..Len(bank) : letter \in Range(bank[k]) })

\* the sum, over the distinct letters of the word, of Containing
BankScore(bank, word) ==
  SumFreqs(Range(word), [l \in Range(word) |-> Containing(bank, l)])

\* the positions of the bank whose word has the maximal score
MaxPositions(bank) ==
  { k \in 1..Len(bank) :
      \A j \in 1..Len(bank) : BankScore(bank, bank[j]) <= BankScore(bank, bank[k]) }

FirstOf(S) == CHOOSE k \in S : \A j \in S : k <= j

LastOf(S) == CHOOSE k \in S : \A j \in S : j <= k

----------------------------------------------------------------------------
(* Properties of play *)

Won == pc = "done" /\ solved

Lost == pc = "done" /\ ~solved /\ output = "Failure"

\* C2 as stated: when play has ended with a word bank of zero candidates, it
\* has ended in Lost, never in the fault raised from guess selection.
C2_EmptyBankEndsLost ==
  (word_bank = <<>> /\ pc \in {"done", "fault"}) => (Lost /\ pc # "fault")

\* C3: with the solution in the initial bank and guess_limit >= 1, play never
\* faults, a round is only begun while fewer than guess_limit rounds were
\* played, and when play has ended it is Won or Lost with at most guess_limit
\* hint sequences in the history; and every round adds one hint sequence to
\* the history, so that play cannot go on for more than guess_limit rounds.
C3_EndsWithinLimit ==
  /\ []((solution \in Range(initial_bank) /\ guess_limit >= 1) =>
          /\ pc # "fault"
          /\ pc \in {"loop", "respond", "pare"} => Len(responses) < guess_limit
          /\ pc = "done" => (Won \/ Lost) /\ Len(responses) <= guess_limit)
  /\ [][pc' = "respond" => (pc = "loop" /\ responses' = responses)]_vars
  /\ [][pc = "respond" => Len(responses') = Len(responses) + 1]_vars

\* a session with the solution in its bank lost by meeting a limit of two or
\* more rounds
C3_Witness ==
  /\ solution \in Range(initial_bank)
  /\ guess_limit >= 2
  /\ Lost
  /\ Len(responses) = guess_limit

\* C5: if the solution is in the initial word bank, it is in the word bank in
\* every state of the session.
C5_SolutionStaysInBank ==
  solution \in Range(initial_bank) => solution \in Range(word_bank)

\* pare_word_bank has removed words and kept the solution
C5_Witness ==
  /\ pc = "loop"
  /\ Len(responses) > 0
  /\ Len(word_bank) < Len(initial_bank)
  /\ solution \in Range(word_bank)

\* C7: after at least one round, solved holds exactly when the most recent
\* hint sequence of the history is all YES; and once solved holds, no further
\* guess is made and no hint sequence is added.
C7_SolvedIffLastAllExact ==
  /\ [](Len(responses) > 0 =>
          (solved <=> \A i \in 1..Len(responses[Len(responses)]) :
                         responses[Len(responses)][i][1] = "YES"))
  /\ [][solved => (guess' = guess /\ responses' = responses)]_vars

\* a session solved in its second round or later
C7_Witness ==
  /\ solved
  /\ Len(responses) >= 2
  /\ \A i \in 1..Len(responses[Len(responses)]) : responses[Len(responses)][i][1] = "YES"
  /\ \E i \in 1..Len(responses[1]) : responses[1][i][1] # "YES"

\* C10: when a non-winning round with a guess of the solution's length is
\* followed by another round, the guess is still in the word bank for that
\* round exactly when every letter of the guess occurs in the solution.
C10_GuessSurvivesIffNoAbsent ==
  (pc = "loop" /\ Len(responses) > 0 /\ Len(guess) = Len(solution)) =>
    (guess \in Range(word_bank) <=> Range(guess) \subseteq Range(solution))

\* a guess that is not the solution survived pare_word_bank
C10_Witness ==
  /\ pc = "loop"
  /\ Len(responses) > 0
  /\ Len(guess) = Len(solution)
  /\ guess # solution
  /\ guess \in Range(word_bank)
  /\ Range(guess) \subseteq Range(solution)

----------------------------------------------------------------------------
(* Properties of respond *)

\* C4: for a guess and a solution of equal length, the result of respond has
\* one entry per position, the letter of entry i is guess[i], and the hint of
\* entry i is YES iff guess[i] = solution[i], NO iff guess[i] occurs nowhere
\* in the solution, and MOVE otherwise.
C4_HintsByPosition ==
  (pc = "respond_ret" /\ Len(guess) = Len(solution)) =>
    /\ Len(response) = Len(guess)
    /\ \A i \in 1..Len(guess) :
         /\ response[i][2] = guess[i]
         /\ response[i][1] \in Hints
         /\ response[i][1] = "YES" <=> guess[i] = solution[i]
         /\ response[i][1] = "NO" <=> guess[i] \notin Range(solution)
         /\ response[i][1] = "MOVE" <=>
              (guess[i] # solution[i] /\ guess[i] \in Range(solution))

\* respond has returned all three hints for one guess
C4_Witness ==
  /\ pc = "respond_ret"
  /\ Len(guess) = Len(solution)
  /\ { response[i][1] : i \in 1..Len(response) } = Hints

\* C8 as stated: respond with guess "table" and solution "abbey" returns
\* NO t, MOVE a, MOVE b, NO l, MOVE e.
C8_TableAgainstAbbey ==
  (pc = "respond_ret" /\ guess = Table /\ solution = Abbey) =>
    response = << <<"NO", "t">>, <<"MOVE", "a">>, <<"MOVE", "b">>,
                  <<"NO", "l">>, <<"MOVE", "e">> >>

\* C8 amended: respond with guess "table" and solution "abbey" returns
\* NO t, MOVE a, YES b, NO l, MOVE e: the b of "table" is at the position of
\* the second b of "abbey".
C8_TableAgainstAbbeyExactB ==
  (pc = "respond_ret" /\ guess = Table /\ solution = Abbey) =>
    response = << <<"NO", "t">>, <<"MOVE", "a">>, <<"YES", "b">>,
                  <<"NO", "l">>, <<"MOVE", "e">> >>

\* respond has returned for guess "table" and solution "abbey"
C8_Witness ==
  /\ pc = "respond_ret"
  /\ guess = Table
  /\ solution = Abbey
  /\ Len(response) = 5

\* C9 as stated: respond returns no hint sequence when the guess and the
\* solution differ in length.
C9_LengthMismatchRejected ==
  pc = "respond_ret" => Len(guess) = Len(solution)

----------------------------------------------------------------------------
(* Properties of pare_word_bank *)

\* s is t with some elements left out: same relative order, nothing added
IsSubSeq(s, t) ==
  \E f \in [1..Len(s) -> 1..Len(t)] :
    /\ \A i, j \in 1..Len(s) : i < j => f[i] < f[j]
    /\ \A i \in 1..Len(s) : s[i] = t[f[i]]

\* C6: every step, a call of pare_word_bank on any bank and any hint sequence
\* included, leaves a bank that is the bank before it with words left out.
C6_BankOnlyShrinks == [][IsSubSeq(word_bank', word_bank)]_vars

\* pare_word_bank has removed some words of the bank and kept others
C6_Witness ==
  /\ pc \in {"pare_ret", "loop"}
  /\ Len(word_bank) > 0
  /\ Len(word_bank) < Len(initial_bank)

====
